---- MODULE Spec2Model ----
(***************************************************************************)
(* Model of the ProcessManager scheduling and supervision engine:          *)
(*   - Task.schedule(): the next-run computation of a Task                  *)
(*     (processmanager/core/Task.py)                                        *)
(*   - BaseProgram.monitor(): the per-program monitor loop, together with   *)
(*     the record_start / record_stop status overwrites and the CLI's       *)
(*     stop/start commands that share the status file with it               *)
(*     (processmanager/core/BaseProgram.py, Job.py, cli.py)                 *)
(*   - Task.run_threaded(): the run cycle of a Task (timer, worker thread,  *)
(*     status bookkeeping through Job.read_status / write_status, re-arm)   *)
(*     (processmanager/core/Task.py, Job.py, Scheduler.py)                  *)
(*                                                                          *)
(* Time is counted in ticks.  A day has DayLen ticks, a week WeekLen days;  *)
(* weekday 0 is Monday as in datetime.weekday().                            *)
(***************************************************************************)
EXTENDS Integers, FiniteSets, Sequences, TLC

\* ---------------------------------------------------------------- bounds
DayLen == 4
MaxFreq == 3
MaxDays == 2
MaxDrift == 1
MaxClock == 1
MaxSpawn == 2
MaxRetries == 1
MaxCli == 1
MaxWin == 0
MaxEntries == 2
MaxRuns == 2
MaxDeps == 3
MaxJobs == 3
MaxVer == 1
MaxLoads == 2
MaxEdits == 2
MaxVal == 2

\* ------------------------------------------------------------- constants
WeekLen == 7
SecondsPerMinute == 60
SecondsPerHour == 3600
DefaultInterval == 60
None == 0 - 1
BadStr == 0 - 2

VARIABLES
    t_now,      \* Task.schedule: the value of datetime.now() at line 115
    t_cfg,      \* the Task's schedule entry: start, stop, freq, days
    t_drift,    \* time that passes until the second datetime.now() (line 142)
    t_pc,       \* "idle" before schedule() ran, "armed" once the timer is started,
                \* "rearmed" once _schedule_next_run() started it
    t_next,     \* next_run computed by schedule()
    t_delay     \* delay handed to threading.Timer

taskVars == <<t_now, t_cfg, t_drift, t_pc, t_next, t_delay>>

VARIABLES
    p_cfg,      \* the Program's schedule entry: keep_alive, max_retries, ...
    status,     \* the Program's status document on disk
    alive,      \* PIDs of the worker processes that exist
    spawned,    \* number of workers spawned so far (the last PID handed out)
    clock,      \* datetime.now(), in ticks
    m_pc,       \* position of the monitor thread
    m_status,   \* monitor(): the local current_status
    m_process,  \* self.process of the supervisor's instance (0 = None)
    m_pending,  \* PID returned by the adapter inside a start() in progress
    retries,    \* self.retries of the supervisor's instance
    m_tick,     \* what the current tick read and got from the probe
    calls,      \* number of probe / start() / stop() calls made by monitor()
    notes,      \* notifications sent, per kind
    c_pc,       \* position of the CLI process
    c_cmd,      \* the CLI command being (or last) executed
    c_status,   \* disable_restart(): the local status of the CLI's instance
    c_pending,  \* PID returned by the adapter inside the CLI's start()
    c_count     \* number of CLI commands issued

progVars == <<p_cfg, status, alive, spawned, clock, m_pc, m_status, m_process,
              m_pending, retries, m_tick, calls, notes,
              c_pc, c_cmd, c_status, c_pending, c_count>>

VARIABLES
    r_cfg,      \* the run-cycle Task: schedule entries of its name, dependents
    r_file,     \* the Task's status file on disk
    r_sched,    \* schedule() calls made by Scheduler.schedule_tasks
    r_timers,   \* threading.Timer objects started and not yet fired
    r_fired,    \* timers fired so far (run_threaded calls)
    r_w,        \* the _worker threads, by order of start
    r_clock,    \* datetime.now(), in ticks
    r_hi,       \* the latest last-ran / last-err ever persisted
    r_cli       \* what `schedulerctl list` got from the Task's status

runVars == <<r_cfg, r_file, r_sched, r_timers, r_fired, r_w, r_clock, r_hi, r_cli>>

VARIABLES
    d_list,     \* run_on_complete of the completing Task: per name, what the
                \* schedule file holds for it ("missing", "nostart", "start")
    d_pc,       \* position of the worker around _trigger_dependents
    d_i,        \* names of run_on_complete gone through
    d_exc,      \* the exception that left _trigger_dependents, if any
    d_run,      \* dependents run immediately (list positions)
    d_sch,      \* dependents whose schedule() was invoked (list positions)
    d_log,      \* "not found" errors logged
    d_rearm     \* timers started by the completing Task's _schedule_next_run

depVars == <<d_list, d_pc, d_i, d_exc, d_run, d_sch, d_log, d_rearm>>

VARIABLES
    o_doc,      \* the schedules array of the schedule document
    o_pc,       \* position of Scheduler.run
    o_i,        \* index of the loop Scheduler.run is in
    o_programs, \* self.programs (positions in o_doc)
    o_tasks,    \* self.tasks (positions in o_doc)
    o_queue,    \* self.sorted_task_queue (positions in o_doc; empty for None)
    o_mon,      \* monitor threads started, in order (positions in o_doc)
    o_sch,      \* schedule() calls made, in order (positions in o_doc)
    o_log       \* errors logged by initialize and the eager start

orchVars == <<o_doc, o_pc, o_i, o_programs, o_tasks, o_queue, o_mon, o_sch, o_log>>

VARIABLES
    h_file,     \* the schedule document on disk: parsable or not, the value
                \* of its schedules array, and its layout (key order, spacing)
    h_hash,     \* content of the companion hash file (None: no file)
    h_last,     \* digest written by the last Orchestrator load (None: none)
    h_writes,   \* number of writes of the hash file
    h_loads,    \* number of Orchestrator loads
    h_edits,    \* number of edits of the schedule document
    h_cli,      \* number of CLI commands run
    h_valid     \* "Schedule Valid" as printed by the last `list`

hashVars == <<h_file, h_hash, h_last, h_writes, h_loads, h_edits, h_cli, h_valid>>

VARIABLES
    j_in,       \* the call: which function, and its arguments
    j_pc,       \* "call" before the function ran, "done" after
    j_secs,     \* parse_frequency: the value returned (None for None)
    j_logged,   \* parse_frequency: an error was logged
    j_within    \* within_schedule: the value returned

jobVars == <<j_in, j_pc, j_secs, j_logged, j_within>>

extVars == <<depVars, orchVars, hashVars, jobVars>>

vars == <<taskVars, progVars, runVars, extVars>>

\* ------------------------------------------------------ Task: pure parts

\* date and weekday of an instant (datetime.date(), date.weekday())
DateOf(t) == t \div DayLen
TimeOf(t) == t % DayLen
Weekday(d) == d % WeekLen

\* rounding down instead of up
Ceil_floor(a, b) == a \div b

\* math.ceil(elapsed / freq_seconds) for elapsed >= 0, freq > 0
Ceil(a, b) == (a + b - 1) \div b

\* Task.get_target_datetime: a time of day on a given date
get_target_datetime(time, date) == date * DayLen + time

\* Task.get_allowed_days: no (or an empty) days list allows every weekday
get_allowed_days(cfg) == IF cfg.days # {} THEN cfg.days ELSE 0 .. (WeekLen - 1)

\* the stop string ignored: the window always ends at the end of the day
get_day_window_nostop(cfg, date) ==
    <<get_target_datetime(cfg.start, date), get_target_datetime(DayLen - 1, date)>>

\* Task.get_day_window: <<start_dt, stop_dt>>; no stop string means 23:59:59
get_day_window(cfg, date) ==
    <<get_target_datetime(cfg.start, date),
      IF cfg.stop # None THEN get_target_datetime(cfg.stop, date)
                         ELSE get_target_datetime(DayLen - 1, date)>>

\* the weekday test dropped: the very next date is taken
get_next_allowed_date_nocheck(cfg, current_date, days_ahead) ==
    current_date + days_ahead

\* Task.get_next_allowed_date: first date current_date + k, k >= days_ahead,
\* whose weekday is allowed
RECURSIVE get_next_allowed_date(_, _, _)
get_next_allowed_date(cfg, current_date, days_ahead) ==
    IF Weekday(current_date + days_ahead) \in get_allowed_days(cfg)
    THEN current_date + days_ahead
    ELSE get_next_allowed_date(cfg, current_date, days_ahead + 1)

\* the candidate kept although it lies after the window's end
schedule_freq_branch_nodiscard(now, cfg, candidate_date, start_dt, stop_dt) ==
    start_dt + Ceil(now - start_dt, cfg.freq) * cfg.freq

\* the frequency branch of Task.schedule (lines 127-133)
schedule_freq_branch(now, cfg, candidate_date, start_dt, stop_dt) ==
    LET elapsed == now - start_dt
        n == Ceil(elapsed, cfg.freq)
        next_run == start_dt + n * cfg.freq
    IN  IF next_run > stop_dt
        THEN get_day_window(cfg, get_next_allowed_date(cfg, candidate_date, 1))[1]
        ELSE next_run

\* Task.schedule, lines 115-140: the next_run chosen at instant now.
\* cfg.freq = 0 stands for "no freq string" (freq_seconds falsy).
schedule_next_run(now, cfg) ==
    LET today == DateOf(now)
        w0 == get_day_window(cfg, today)
        advance == Weekday(today) \notin get_allowed_days(cfg) \/ now >= w0[2]
        candidate_date == IF advance THEN get_next_allowed_date(cfg, today, 1)
                                     ELSE today
        w == get_day_window(cfg, candidate_date)
    IN  IF cfg.freq # 0 /\ w[1] <= now /\ now < w[2]
        THEN schedule_freq_branch(now, cfg, candidate_date, w[1], w[2])
        ELSE IF now < w[1]
             THEN w[1]
             ELSE get_day_window(cfg, get_next_allowed_date(cfg, candidate_date, 1))[1]

\* Task._schedule_next_run, lines 215-230: the next_run chosen after a run
\* that completed at instant now.  cfg.freq = 0 stands for "no freq string".
schedule_next_run_after_run(now, cfg) ==
    LET today == DateOf(now)
        w0 == get_day_window(cfg, today)
    IN  IF cfg.freq # 0
        THEN IF now >= w0[2] \/ now + cfg.freq > w0[2]
             THEN get_day_window(cfg, get_next_allowed_date(cfg, today, 1))[1]
             ELSE now + cfg.freq
        ELSE IF now >= w0[1]
             THEN get_day_window(cfg, get_next_allowed_date(cfg, today, 1))[1]
             ELSE get_day_window(cfg, today)[1]

\* ------------------------------------------------ status document (Job)

StatusKeys == {"pid", "time_started", "num_retries", "status",
               "last_checkup", "disable_restart"}

\* the document read when no status file exists: {}.  A key that is absent
\* carries the value that dict.get() defaults to.
EmptyStatus ==
    [keys |-> {}, pid |-> 0, time_started |-> None, num_retries |-> 0,
     status |-> "", last_checkup |-> None, disable_restart |-> FALSE]

\* status[k] = v on a dict
SetKey(st, k, v) == [st EXCEPT !.keys = @ \cup {k}, ![k] = v]


\* the overwrite replaced by an update of the document found on disk
StartedStatus_merge(pid, now, r) ==
    [status EXCEPT !.keys = @ \cup {"pid", "time_started", "num_retries", "status"},
                   !.pid = pid, !.time_started = now, !.num_retries = r,
                   !.status = "running"]
\* record_start: new_status written after a successful start (lines 96-101)
StartedStatus(pid, now, r) ==
    [keys |-> {"pid", "time_started", "num_retries", "status"},
     pid |-> pid, time_started |-> now, num_retries |-> r,
     status |-> "running", last_checkup |-> None, disable_restart |-> FALSE]

\* the document written whether or not the adapter returned a PID
record_start_write_always(st, pid, now, r) == StartedStatus(pid, now, r)

\* record_start, lines 95-103: the status on disk after the adapter returned
\* pid (0 = None); `if pid:` guards the overwrite
record_start_write(st, pid, now, r) ==
    IF pid # 0 THEN StartedStatus(pid, now, r) ELSE st

\* record_stop: status written after stop() (lines 116-121)
StoppedStatus(r) ==
    [keys |-> {"pid", "time_started", "num_retries", "status"},
     pid |-> 0, time_started |-> None, num_retries |-> r,
     status |-> "stopped", last_checkup |-> None, disable_restart |-> FALSE]

NoTick == [disabled |-> FALSE, result |-> "none", pid_alive |-> FALSE,
           base |-> [probe |-> 0, start |-> 0, stop |-> 0]]

\* the Program part at rest (used while only the Task part runs)
ProgIdle ==
    /\ p_cfg = [keep_alive |-> FALSE, max_retries |-> 0, probe |-> "default",
                run_on_start |-> FALSE, win_start |-> None, win_end |-> None]
    /\ status = EmptyStatus
    /\ alive = {}
    /\ spawned = 0
    /\ clock = 0
    /\ m_pc = "boot"
    /\ m_status = EmptyStatus
    /\ m_process = 0
    /\ m_pending = 0
    /\ retries = 0
    /\ m_tick = NoTick
    /\ calls = [probe |-> 0, start |-> 0, stop |-> 0]
    /\ notes = [down |-> 0, up |-> 0, failure |-> 0]
    /\ c_pc = "idle"
    /\ c_cmd = "none"
    /\ c_status = EmptyStatus
    /\ c_pending = 0
    /\ c_count = 0

\* ------------------------------------------------- Task status document

\* a Task status map: the keys last-ran and last-err, None when absent
EmptyDoc == [last_ran |-> None, last_err |-> None]

\* the status file: absent, holding a document, or "corrupt" (empty or
\* otherwise unparsable, as open(path, "w") leaves it before json.dump)
FileOf(state, doc) ==
    [state |-> state, last_ran |-> doc.last_ran, last_err |-> doc.last_err]

\* Job.read_status, lines 75-85: {} for a missing file, the parsed document,
\* or None (map = FALSE) when json.load raises
read_status(f) ==
    IF f.state = "absent"
    THEN [map |-> TRUE, last_ran |-> None, last_err |-> None]
    ELSE IF f.state = "ok"
         THEN [map |-> TRUE, last_ran |-> f.last_ran, last_err |-> f.last_err]
         ELSE [map |-> FALSE, last_ran |-> None, last_err |-> None]

\* a _worker thread that has not been started
NoWorker == [pc |-> "unused", code |-> None, last_ran |-> None,
             last_err |-> None, rearms |-> 0, wrote |-> FALSE]

\* the run-cycle part at rest (used while another part runs)
RunIdle ==
    /\ r_cfg = [entries |-> 1, file0 |-> "absent", deps |-> FALSE,
                freq_bad |-> FALSE]
    /\ r_file = FileOf("absent", EmptyDoc)
    /\ r_sched = 0
    /\ r_timers = 0
    /\ r_fired = 0
    /\ r_w = [w \in 1 .. MaxRuns |-> NoWorker]
    /\ r_clock = 0
    /\ r_hi = EmptyDoc
    /\ r_cli = "idle"

\* the dependents part at rest
DepIdle ==
    /\ d_list = << >>
    /\ d_pc = "idle"
    /\ d_i = 0
    /\ d_exc = "none"
    /\ d_run = {}
    /\ d_sch = {}
    /\ d_log = 0
    /\ d_rearm = 0

\* the Orchestrator part at rest
OrchIdle ==
    /\ o_doc = << >>
    /\ o_pc = "init"
    /\ o_i = 0
    /\ o_programs = << >>
    /\ o_tasks = << >>
    /\ o_queue = << >>
    /\ o_mon = << >>
    /\ o_sch = << >>
    /\ o_log = 0

\* the schedule-hash part at rest
HashIdle ==
    /\ h_file = [ok |-> TRUE, v |-> 0, fmt |-> 0]
    /\ h_hash = None
    /\ h_last = None
    /\ h_writes = 0
    /\ h_loads = 0
    /\ h_edits = 0
    /\ h_cli = 0
    /\ h_valid = "none"

\* a call of one of the Job helpers that has nothing to parse
NoCall == [op |-> "none", num_ok |-> TRUE, value |-> 0, space |-> TRUE,
           unit |-> "s", start_str |-> None, end_str |-> None, now |-> 0]

\* the Job helpers part at rest
JobIdle ==
    /\ j_in = NoCall
    /\ j_pc = "call"
    /\ j_secs = None
    /\ j_logged = FALSE
    /\ j_within = FALSE

\* the parts added to the Task, Program and run-cycle parts, at rest
ExtIdle == DepIdle /\ OrchIdle /\ HashIdle /\ JobIdle

\* ---------------------------------------------------- Task: state machine

DaySets == {s \in SUBSET (0 .. (WeekLen - 1)) : Cardinality(s) <= MaxDays}

TaskConfigs ==
    {c \in [start : 0 .. (DayLen - 1),
            stop  : {None} \cup (0 .. (DayLen - 1)),
            freq  : 0 .. MaxFreq,
            days  : DaySets] : c.stop = None \/ c.start <= c.stop}

TaskInit ==
    /\ t_now \in 0 .. (WeekLen * DayLen - 1)
    /\ t_cfg \in TaskConfigs
    /\ t_drift \in 0 .. MaxDrift
    /\ t_pc = "idle"
    /\ t_next = None
    /\ t_delay = 0
    /\ ProgIdle
    /\ RunIdle
    /\ ExtIdle

\* Task.schedule(): compute next_run, compute the delay against a second
\* reading of the clock, start the timer
Schedule ==
    /\ t_pc = "idle"
    /\ t_next' = schedule_next_run(t_now, t_cfg)
    /\ t_delay' = schedule_next_run(t_now, t_cfg) - (t_now + t_drift)
    /\ t_pc' = "armed"
    /\ UNCHANGED <<t_now, t_cfg, t_drift>>
    /\ UNCHANGED progVars
    /\ UNCHANGED runVars
    /\ UNCHANGED extVars

\* Task._schedule_next_run(): the same steps after a run, with the
\* completion instant as now
ScheduleNextRun ==
    /\ t_pc = "idle"
    /\ t_next' = schedule_next_run_after_run(t_now, t_cfg)
    /\ t_delay' = schedule_next_run_after_run(t_now, t_cfg) - (t_now + t_drift)
    /\ t_pc' = "rearmed"
    /\ UNCHANGED <<t_now, t_cfg, t_drift>>
    /\ UNCHANGED progVars
    /\ UNCHANGED runVars
    /\ UNCHANGED extVars

TaskNext ==
    \/ Schedule
    \/ ScheduleNextRun

SpecTask == TaskInit /\ [][TaskNext]_vars

\* ------------------------------------------------ Task: checked properties

\* the stop time of day of the configured window
StopTime(cfg) == IF cfg.stop # None THEN cfg.stop ELSE DayLen - 1

\* now lies on the frequency grid of today's window, today being allowed
OnGrid(now, cfg) ==
    /\ cfg.freq # 0
    /\ Weekday(DateOf(now)) \in get_allowed_days(cfg)
    /\ cfg.start <= TimeOf(now)
    /\ TimeOf(now) < StopTime(cfg)
    /\ (TimeOf(now) - cfg.start) % cfg.freq = 0

\* the nearest date strictly after d whose weekday is allowed
NearestLaterAllowed(d, cfg) ==
    d + CHOOSE k \in 1 .. WeekLen :
            /\ Weekday(d + k) \in get_allowed_days(cfg)
            /\ \A j \in 1 .. (k - 1) : Weekday(d + j) \notin get_allowed_days(cfg)

C2_NextRunInWindow ==
    t_pc = "armed" =>
        /\ Weekday(DateOf(t_next)) \in get_allowed_days(t_cfg)
        /\ t_cfg.start <= TimeOf(t_next)
        /\ TimeOf(t_next) <= StopTime(t_cfg)
        /\ (t_cfg.freq = 0 => TimeOf(t_next) = t_cfg.start)

C2_Witness ==
    /\ t_pc = "armed"
    /\ t_cfg.freq # 0
    /\ t_cfg.stop # None
    /\ t_cfg.days # {}
    /\ TimeOf(t_next) > t_cfg.start
    /\ TimeOf(t_next) = t_cfg.stop

\* C3: when now is on a weekday that is not allowed, or at or past the end
\* of today's window, next_run is start_time on the nearest strictly later
\* allowed date.  With days = {Monday}, start = 1, frequency = 2 and no
\* stop: Tuesday at tick 1 gives next Monday at tick 1, while Monday at
\* tick 2 gives Monday at tick 3.
C3_AdvanceToNextAllowedDate ==
    t_pc = "armed" =>
        /\ (\/ Weekday(DateOf(t_now)) \notin get_allowed_days(t_cfg)
            \/ TimeOf(t_now) >= StopTime(t_cfg))
           => t_next = get_target_datetime(t_cfg.start,
                           NearestLaterAllowed(DateOf(t_now), t_cfg))
        /\ (t_cfg = [start |-> 1, stop |-> None, freq |-> 2, days |-> {0}]
            /\ t_now = get_target_datetime(1, 1))
           => t_next = get_target_datetime(1, WeekLen)
        /\ (t_cfg = [start |-> 1, stop |-> None, freq |-> 2, days |-> {0}]
            /\ t_now = get_target_datetime(2, 0))
           => t_next = get_target_datetime(3, 0)

C3_Witness ==
    /\ t_pc = "armed"
    /\ t_cfg.freq # 0
    /\ t_cfg.days # {}
    /\ Weekday(DateOf(t_now)) \notin t_cfg.days
    /\ DateOf(t_next) >= DateOf(t_now) + 3
    /\ TimeOf(t_next) = t_cfg.start

\* now lies in [window_start, window_end) of today, today being allowed,
\* and a frequency is set
InWindowWithFreq(now, cfg) ==
    /\ cfg.freq # 0
    /\ Weekday(DateOf(now)) \in get_allowed_days(cfg)
    /\ cfg.start <= TimeOf(now)
    /\ TimeOf(now) < StopTime(cfg)

\* the first instant window_start + n*freq, n >= 0, that is not before now
GridInstant(now, cfg) ==
    LET elapsed == TimeOf(now) - cfg.start
        n == CHOOSE k \in 0 .. DayLen :
                 /\ k * cfg.freq >= elapsed
                 /\ \A j \in 0 .. (k - 1) : j * cfg.freq < elapsed
    IN  DateOf(now) * DayLen + cfg.start + n * cfg.freq

\* C30: with a frequency set and window_start <= now < window_end on an
\* allowed day, next_run is window_start + n*frequency with
\* n = ceil((now - window_start)/frequency); when that instant is later
\* than window_end it is discarded and next_run is the window_start of the
\* next allowed date.
C30_FrequencyGridOrNextDate ==
    (t_pc = "armed" /\ InWindowWithFreq(t_now, t_cfg)) =>
        t_next = IF GridInstant(t_now, t_cfg)
                        > DateOf(t_now) * DayLen + StopTime(t_cfg)
                 THEN NearestLaterAllowed(DateOf(t_now), t_cfg) * DayLen
                          + t_cfg.start
                 ELSE GridInstant(t_now, t_cfg)

C30_Witness ==
    /\ t_pc = "armed"
    /\ InWindowWithFreq(t_now, t_cfg)
    /\ GridInstant(t_now, t_cfg) > DateOf(t_now) * DayLen + StopTime(t_cfg)
    /\ DateOf(t_next) > DateOf(t_now)
    /\ TimeOf(t_next) = t_cfg.start

\* C31: the re-arm after a run computes, for every completion instant now
\* and every Task configuration, the same next_run that schedule()
\* computes for that now.
C31_RearmSameAsSchedule ==
    t_pc = "rearmed" => t_next = schedule_next_run(t_now, t_cfg)

\* C32: the fire time of every timer re-armed after a run is on an allowed
\* weekday and its time of day lies in [start_time, stop_time], for every
\* completion instant.
C32_RearmInWindow ==
    t_pc = "rearmed" =>
        /\ Weekday(DateOf(t_next)) \in get_allowed_days(t_cfg)
        /\ t_cfg.start <= TimeOf(t_next)
        /\ TimeOf(t_next) <= StopTime(t_cfg)

\* ------------------------------------------------- Program: pure parts

\* a window closed before its end bound
within_schedule_strict(cfg, now) ==
    IF cfg.win_start = None \/ cfg.win_end = None
    THEN TRUE
    ELSE cfg.win_start <= now /\ now < cfg.win_end

\* Job.within_schedule: no window unless both bounds are configured
within_schedule(cfg, now) ==
    IF cfg.win_start = None \/ cfg.win_end = None
    THEN TRUE
    ELSE cfg.win_start <= now /\ now <= cfg.win_end

\* BaseProgram.default_monitor: pid_running, the recorded PID exists
default_monitor(st, al) == st.pid # 0 /\ st.pid \in al

\* values a monitor function hands back: booleans, or the strings
\* returned by NASProgram.custom_monitor
ProbeOutcomes == {"False", "True", "SUCCESS", "RESTART"}

\* truth value of a probe result in `if self.monitor_func():`
Truthy(o) == o \in {"True", "SUCCESS", "RESTART"}

\* self.monitor_func(): the results the probe can hand back in this state
monitor_func(cfg, st, al) ==
    IF cfg.probe = "default"
    THEN {IF default_monitor(st, al) THEN "True" ELSE "False"}
    ELSE ProbeOutcomes

\* the keep_alive test dropped: a failing poll always counts as a retry
monitor_decide_retry(cfg, r, o) ==
    IF Truthy(o)
    THEN IF r + 1 <= cfg.max_retries
         THEN [pc |-> "start", retries |-> r + 1, failure |-> 0]
         ELSE [pc |-> "failed", retries |-> r + 1, failure |-> 1]
    ELSE [pc |-> "sleep", retries |-> 0, failure |-> 0]

\* the max_retries test dropped: every failing poll restarts
monitor_decide_unbounded(cfg, r, o) ==
    IF Truthy(o)
    THEN IF ~cfg.keep_alive
         THEN [pc |-> "ended", retries |-> r, failure |-> 0]
         ELSE [pc |-> "start", retries |-> r + 1, failure |-> 0]
    ELSE [pc |-> "sleep", retries |-> 0, failure |-> 0]

\* monitor(), lines 170-186: what the loop does with the probe result o
monitor_decide(cfg, r, o) ==
    IF Truthy(o)
    THEN IF ~cfg.keep_alive
         THEN [pc |-> "ended", retries |-> r, failure |-> 0]
         ELSE IF r + 1 <= cfg.max_retries
              THEN [pc |-> "start", retries |-> r + 1, failure |-> 0]
              ELSE [pc |-> "failed", retries |-> r + 1, failure |-> 1]
    ELSE [pc |-> "sleep", retries |-> 0, failure |-> 0]

\* the disable flag never honoured
IsDisabled_never(st) == FALSE

\* current_status.get("disable_restart", False)
IsDisabled(st) == st.disable_restart

\* the recorded PID left running
KillOld_skip(al, st) == al

\* record_start, lines 82-93: the workers left after os.kill(old_pid, 9)
KillOld(al, st) == IF st.pid # 0 THEN al \ {st.pid} ELSE al

\* the workers an adapter's stop() may terminate: none (no handle in this
\* instance, signal ignored or failed), the worker behind the instance's
\* process handle, or the worker recorded in the status document
StopOutcomes(handle, st) == {{}} \cup {{x} : x \in ({handle, st.pid} \ {0})}

\* ------------------------------------------------ Program: state machine

Windows == {<<None, None>>} \cup
           {<<s, e>> : s \in 0 .. MaxWin, e \in 0 .. MaxWin}

ProgConfigs ==
    {c \in [keep_alive : BOOLEAN, max_retries : 0 .. MaxRetries,
            probe : {"default", "custom"}, run_on_start : BOOLEAN,
            win_start : {None} \cup (0 .. MaxWin),
            win_end : {None} \cup (0 .. MaxWin)] :
        /\ <<c.win_start, c.win_end>> \in Windows
        /\ (c.win_start # None => c.win_start <= c.win_end)}

TaskIdle ==
    /\ t_now = 0
    /\ t_cfg = [start |-> 0, stop |-> None, freq |-> 0, days |-> {}]
    /\ t_drift = 0
    /\ t_pc = "idle"
    /\ t_next = None
    /\ t_delay = 0

ProgInit ==
    /\ p_cfg \in ProgConfigs
    /\ status = EmptyStatus
    /\ alive = {}
    /\ spawned = 0
    /\ clock = 0
    /\ m_pc = "boot"
    /\ m_status = EmptyStatus
    /\ m_process = 0
    /\ m_pending = 0
    /\ retries = 0
    /\ m_tick = NoTick
    /\ calls = [probe |-> 0, start |-> 0, stop |-> 0]
    /\ notes = [down |-> 0, up |-> 0, failure |-> 0]
    /\ c_pc = "idle"
    /\ c_cmd = "none"
    /\ c_status = EmptyStatus
    /\ c_pending = 0
    /\ c_count = 0
    /\ TaskIdle
    /\ RunIdle
    /\ ExtIdle

cliVars == <<c_pc, c_cmd, c_status, c_pending, c_count>>
monVars == <<m_pc, m_status, m_process, m_pending, retries, m_tick, calls, notes>>

\* Scheduler.run, lines 96-110: the eager start of a run_on_start Program
\* (the read of the status, the kill of the recorded PID and the adapter's
\* spawn of record_start), then the monitor thread is started
MonitorBoot ==
    /\ m_pc = "boot"
    /\ IF p_cfg.run_on_start /\ within_schedule(p_cfg, clock)
       THEN \E ok \in BOOLEAN :
               /\ ok => spawned < MaxSpawn
               /\ alive' = KillOld(alive, status) \cup
                               (IF ok THEN {spawned + 1} ELSE {})
               /\ spawned' = IF ok THEN spawned + 1 ELSE spawned
               /\ m_process' = IF ok THEN spawned + 1 ELSE m_process
               /\ m_pending' = IF ok THEN spawned + 1 ELSE 0
               /\ m_pc' = "boot_w"
       ELSE /\ m_pc' = "read"
            /\ UNCHANGED <<alive, spawned, m_process, m_pending>>
    /\ UNCHANGED <<p_cfg, status, clock, m_status, retries, m_tick, calls, notes>>
    /\ UNCHANGED cliVars
    /\ UNCHANGED taskVars
    /\ UNCHANGED runVars
    /\ UNCHANGED extVars

\* record_start, lines 95-103, for the eager start
MonitorBootWrite ==
    /\ m_pc = "boot_w"
    /\ status' = record_start_write(status, m_pending, clock, retries)
    /\ m_pending' = 0
    /\ m_pc' = "read"
    /\ UNCHANGED <<p_cfg, alive, spawned, clock, m_status, m_process, retries,
                   m_tick, calls, notes>>
    /\ UNCHANGED cliVars
    /\ UNCHANGED taskVars
    /\ UNCHANGED runVars
    /\ UNCHANGED extVars

\* the disabled branch also records the checkup before it sleeps
MonitorRead_checkup ==
    /\ m_pc = "read"
    /\ m_tick' = [disabled |-> status.disable_restart, result |-> "none",
                  pid_alive |-> FALSE, base |-> calls]
    /\ IF IsDisabled(status)
       THEN /\ m_pc' = "sleep"
            /\ m_status' = EmptyStatus
            /\ status' = SetKey(status, "last_checkup", clock)
       ELSE /\ m_pc' = "write"
            /\ m_status' = status
            /\ status' = status
    /\ UNCHANGED <<p_cfg, alive, spawned, clock, m_process, m_pending,
                   retries, calls, notes>>
    /\ UNCHANGED cliVars
    /\ UNCHANGED taskVars
    /\ UNCHANGED runVars
    /\ UNCHANGED extVars

\* monitor(), lines 152-158: read the status; a disabled Program sleeps
MonitorRead ==
    /\ m_pc = "read"
    /\ m_tick' = [disabled |-> status.disable_restart, result |-> "none",
                  pid_alive |-> FALSE, base |-> calls]
    /\ IF IsDisabled(status)
       THEN m_pc' = "sleep" /\ m_status' = EmptyStatus
       ELSE m_pc' = "write" /\ m_status' = status
    /\ UNCHANGED <<p_cfg, status, alive, spawned, clock, m_process, m_pending,
                   retries, calls, notes>>
    /\ UNCHANGED cliVars
    /\ UNCHANGED taskVars
    /\ UNCHANGED runVars
    /\ UNCHANGED extVars

\* monitor(), lines 160-161: write current_status with last_checkup = now
MonitorWriteCheckup ==
    /\ m_pc = "write"
    /\ status' = SetKey(m_status, "last_checkup", clock)
    /\ m_status' = EmptyStatus
    /\ m_pc' = "check"
    /\ UNCHANGED <<p_cfg, alive, spawned, clock, m_process, m_pending, retries,
                   m_tick, calls, notes>>
    /\ UNCHANGED cliVars
    /\ UNCHANGED taskVars
    /\ UNCHANGED runVars
    /\ UNCHANGED extVars

\* stop() called on every tick outside the window, handle or not
MonitorOutside_always ==
    /\ m_pc = "check"
    /\ ~within_schedule(p_cfg, clock)
    /\ \E K \in StopOutcomes(m_process, status) :
          /\ alive' = alive \ K
          /\ status' = StoppedStatus(retries)
          /\ calls' = [calls EXCEPT !.stop = @ + 1]
    /\ m_pc' = "sleep"
    /\ UNCHANGED <<p_cfg, spawned, clock, m_status, m_process, m_pending,
                   retries, m_tick, notes>>
    /\ UNCHANGED cliVars
    /\ UNCHANGED taskVars
    /\ UNCHANGED runVars
    /\ UNCHANGED extVars

\* monitor(), lines 163-168: outside the window, stop() a live worker this
\* instance holds a handle to (adapter stop, then record_stop's overwrite)
MonitorOutside ==
    /\ m_pc = "check"
    /\ ~within_schedule(p_cfg, clock)
    /\ IF m_process # 0 /\ m_process \in alive
       THEN \E K \in StopOutcomes(m_process, status) :
               /\ alive' = alive \ K
               /\ status' = StoppedStatus(retries)
               /\ calls' = [calls EXCEPT !.stop = @ + 1]
       ELSE UNCHANGED <<alive, status, calls>>
    /\ m_pc' = "sleep"
    /\ UNCHANGED <<p_cfg, spawned, clock, m_status, m_process, m_pending,
                   retries, m_tick, notes>>
    /\ UNCHANGED cliVars
    /\ UNCHANGED taskVars
    /\ UNCHANGED runVars
    /\ UNCHANGED extVars

\* monitor(), lines 170-186: evaluate the probe and decide
MonitorProbe ==
    /\ m_pc = "check"
    /\ within_schedule(p_cfg, clock)
    /\ \E o \in monitor_func(p_cfg, status, alive) :
          LET d == monitor_decide(p_cfg, retries, o)
          IN  /\ m_tick' = [m_tick EXCEPT !.result = o,
                                !.pid_alive = default_monitor(status, alive)]
              /\ m_pc' = d.pc
              /\ retries' = d.retries
              /\ notes' = [notes EXCEPT !.failure = @ + d.failure]
    /\ calls' = [calls EXCEPT !.probe = @ + 1]
    /\ UNCHANGED <<p_cfg, status, alive, spawned, clock, m_status, m_process,
                   m_pending>>
    /\ UNCHANGED cliVars
    /\ UNCHANGED taskVars
    /\ UNCHANGED runVars
    /\ UNCHANGED extVars

\* monitor(), line 170: a custom probe raises (MongoProgram.custom_monitor
\* catches ServerSelectionTimeoutError only); the call is inside no try, the
\* exception leaves monitor() and the thread ends
MonitorProbeRaises ==
    /\ m_pc = "check"
    /\ within_schedule(p_cfg, clock)
    /\ p_cfg.probe = "custom"
    /\ m_tick' = [m_tick EXCEPT !.result = "raised",
                      !.pid_alive = default_monitor(status, alive)]
    /\ m_pc' = "crashed"
    /\ calls' = [calls EXCEPT !.probe = @ + 1]
    /\ UNCHANGED <<p_cfg, status, alive, spawned, clock, m_status, m_process,
                   m_pending, retries, notes>>
    /\ UNCHANGED cliVars
    /\ UNCHANGED taskVars
    /\ UNCHANGED runVars
    /\ UNCHANGED extVars

\* monitor(), line 178, self.start(): record_start reads the status, kills
\* the recorded PID, the adapter spawns (or fails and returns None)
MonitorStart ==
    /\ m_pc = "start"
    /\ \E ok \in BOOLEAN :
          /\ ok => spawned < MaxSpawn
          /\ alive' = KillOld(alive, status) \cup
                          (IF ok THEN {spawned + 1} ELSE {})
          /\ spawned' = IF ok THEN spawned + 1 ELSE spawned
          /\ m_process' = IF ok THEN spawned + 1 ELSE m_process
          /\ m_pending' = IF ok THEN spawned + 1 ELSE 0
    /\ calls' = [calls EXCEPT !.start = @ + 1]
    /\ m_pc' = "start_w"
    /\ UNCHANGED <<p_cfg, status, clock, m_status, retries, m_tick, notes>>
    /\ UNCHANGED cliVars
    /\ UNCHANGED taskVars
    /\ UNCHANGED runVars
    /\ UNCHANGED extVars

\* record_start, lines 95-103, then monitor() line 179: notify_restart is
\* not an attribute of BaseProgram or Job, the AttributeError ends the thread
MonitorStartWrite ==
    /\ m_pc = "start_w"
    /\ status' = record_start_write(status, m_pending, clock, retries)
    /\ m_pending' = 0
    /\ m_pc' = "crashed"
    /\ UNCHANGED <<p_cfg, alive, spawned, clock, m_status, m_process, retries,
                   m_tick, calls, notes>>
    /\ UNCHANGED cliVars
    /\ UNCHANGED taskVars
    /\ UNCHANGED runVars
    /\ UNCHANGED extVars

\* time.sleep(self.check_alive_freq), then the next iteration
MonitorSleep ==
    /\ m_pc = "sleep"
    /\ clock < MaxClock
    /\ clock' = clock + 1
    /\ m_pc' = "read"
    /\ UNCHANGED <<p_cfg, status, alive, spawned, m_status, m_process,
                   m_pending, retries, m_tick, calls, notes>>
    /\ UNCHANGED cliVars
    /\ UNCHANGED taskVars
    /\ UNCHANGED runVars
    /\ UNCHANGED extVars

\* a worker process exits on its own
ProcessDies ==
    /\ \E p \in alive : alive' = alive \ {p}
    /\ UNCHANGED <<p_cfg, status, spawned, clock>>
    /\ UNCHANGED monVars
    /\ UNCHANGED cliVars
    /\ UNCHANGED taskVars
    /\ UNCHANGED runVars
    /\ UNCHANGED extVars

\* cli.stop_program, line 155: prog.stop() on a fresh instance (no process
\* handle, retries 0), with record_stop's overwrite
CliStop ==
    /\ c_pc = "idle"
    /\ c_count < MaxCli
    /\ \E K \in StopOutcomes(0, status) : alive' = alive \ K
    /\ status' = StoppedStatus(0)
    /\ c_cmd' = "stop"
    /\ c_pc' = "flag_r"
    /\ c_count' = c_count + 1
    /\ UNCHANGED <<p_cfg, spawned, clock, c_status, c_pending>>
    /\ UNCHANGED monVars
    /\ UNCHANGED taskVars
    /\ UNCHANGED runVars
    /\ UNCHANGED extVars

\* cli.start_program, line 194: prog.start() on a fresh instance, up to the
\* adapter's return
CliStart ==
    /\ c_pc = "idle"
    /\ c_count < MaxCli
    /\ \E ok \in BOOLEAN :
          /\ ok => spawned < MaxSpawn
          /\ alive' = KillOld(alive, status) \cup
                          (IF ok THEN {spawned + 1} ELSE {})
          /\ spawned' = IF ok THEN spawned + 1 ELSE spawned
          /\ c_pending' = IF ok THEN spawned + 1 ELSE 0
    /\ c_cmd' = "start"
    /\ c_pc' = "start_w"
    /\ c_count' = c_count + 1
    /\ UNCHANGED <<p_cfg, status, clock, c_status>>
    /\ UNCHANGED monVars
    /\ UNCHANGED taskVars
    /\ UNCHANGED runVars
    /\ UNCHANGED extVars

\* record_start, lines 95-103, in the CLI's instance
CliStartWrite ==
    /\ c_pc = "start_w"
    /\ status' = record_start_write(status, c_pending, clock, 0)
    /\ c_pending' = 0
    /\ c_pc' = "flag_r"
    /\ UNCHANGED <<p_cfg, alive, spawned, clock, c_cmd, c_status, c_count>>
    /\ UNCHANGED monVars
    /\ UNCHANGED taskVars
    /\ UNCHANGED runVars
    /\ UNCHANGED extVars

\* BaseProgram.disable_restart, line 65: read the status
CliFlagRead ==
    /\ c_pc = "flag_r"
    /\ c_status' = status
    /\ c_pc' = "flag_w"
    /\ UNCHANGED <<p_cfg, status, alive, spawned, clock, c_cmd, c_pending, c_count>>
    /\ UNCHANGED monVars
    /\ UNCHANGED taskVars
    /\ UNCHANGED runVars
    /\ UNCHANGED extVars

\* BaseProgram.disable_restart, lines 66-67: set the flag, write the status
CliFlagWrite ==
    /\ c_pc = "flag_w"
    /\ status' = SetKey(c_status, "disable_restart", c_cmd = "stop")
    /\ c_status' = EmptyStatus
    /\ c_pc' = "idle"
    /\ UNCHANGED <<p_cfg, alive, spawned, clock, c_cmd, c_pending, c_count>>
    /\ UNCHANGED monVars
    /\ UNCHANGED taskVars
    /\ UNCHANGED runVars
    /\ UNCHANGED extVars

ProgNext ==
    \/ MonitorBoot
    \/ MonitorBootWrite
    \/ MonitorRead
    \/ MonitorWriteCheckup
    \/ MonitorOutside
    \/ MonitorProbe
    \/ MonitorProbeRaises
    \/ MonitorStart
    \/ MonitorStartWrite
    \/ MonitorSleep
    \/ ProcessDies
    \/ CliStop
    \/ CliStart
    \/ CliStartWrite
    \/ CliFlagRead
    \/ CliFlagWrite

SpecProg == ProgInit /\ [][ProgNext]_vars

\* the monitor thread and the CLI process are scheduled fairly: a step of
\* either that stays possible is eventually taken
ProgFairness ==
    /\ WF_vars(MonitorBoot)
    /\ WF_vars(MonitorBootWrite)
    /\ WF_vars(MonitorRead)
    /\ WF_vars(MonitorWriteCheckup)
    /\ WF_vars(MonitorOutside)
    /\ WF_vars(MonitorProbe)
    /\ WF_vars(MonitorStart)
    /\ WF_vars(MonitorStartWrite)
    /\ WF_vars(MonitorSleep)
    /\ WF_vars(CliStartWrite)
    /\ WF_vars(CliFlagRead)
    /\ WF_vars(CliFlagWrite)

SpecProgFair == ProgInit /\ [][ProgNext]_vars /\ ProgFairness

\* --------------------------------------------- Program: checked properties

\* the step is the monitor's handling of the status it has just read
IsReadStep == m_pc = "read" /\ m_pc' # "read"

\* the step is an evaluation of the health probe
IsProbeStep == calls'.probe = calls.probe + 1

\* C4: on a tick whose status read had disable_restart = true the monitor
\* calls neither the probe nor start() nor stop(); the tick only sleeps.
C4_DisabledTickCallsNothing ==
    m_tick.disabled => /\ calls = m_tick.base
                       /\ m_pc \in {"sleep", "read"}

C4_Witness ==
    /\ m_tick.disabled
    /\ m_pc = "sleep"
    /\ clock = MaxClock
    /\ p_cfg.keep_alive
    /\ p_cfg.max_retries >= 1
    /\ calls = [probe |-> 0, start |-> 0, stop |-> 0]

\* C5: once disable_restart is true in the status it stays true until the
\* CLI start command clears it, under every interleaving of the monitor's
\* writes with the CLI's, and the monitor starts nothing meanwhile.
C5_FlagStaysUntilCleared ==
    [][(status.disable_restart /\ m_pc \notin {"boot", "boot_w"}) =>
          /\ status'.disable_restart \/ (c_cmd = "start" /\ c_pc' # c_pc)
          /\ calls'.start = calls.start]_vars

C7_KeepAliveFalseEndsLoop ==
    [][/\ (IsProbeStep /\ ~p_cfg.keep_alive /\ Truthy(m_tick'.result)) =>
             (m_pc' = "ended" /\ retries' = retries /\ calls'.start = calls.start)
       /\ m_pc = "ended" =>
             (m_pc' = "ended" /\ retries' = retries /\ calls' = calls)
      ]_vars

C7_Witness ==
    /\ m_pc = "ended"
    /\ ~p_cfg.keep_alive
    /\ p_cfg.max_retries >= 1
    /\ m_tick.result \in {"True", "RESTART"}
    /\ calls.probe >= 2
    /\ calls.start = 0
    /\ retries = 0

\* C8: with keep_alive = true, max_retries = N and a probe that reports
\* needs-restart on every tick, the monitor stops only in Failed, after
\* exactly N start() calls and exactly one failure notification.
C8_RestartsThenFailed ==
    (/\ p_cfg.keep_alive
     /\ calls.probe > 0
     /\ calls.probe = retries
     /\ m_pc \in {"ended", "failed", "crashed"})
    => (/\ m_pc = "failed"
        /\ calls.start = p_cfg.max_retries
        /\ notes.failure = 1)

\* C9: per outage episode exactly one "down" notification is sent: the
\* first failing poll of an episode sends it, later failing polls of the
\* same episode send none.
C9_OneDownPerEpisode ==
    [][(IsProbeStep /\ Truthy(m_tick'.result)) =>
          notes'.down = notes.down + (IF retries > 0 THEN 0 ELSE 1)]_vars

\* C10: without a custom probe the health check is Healthy exactly when
\* the recorded PID is non-zero and that process exists, and the monitor
\* goes on to start() only on a tick where the recorded process is not alive.
C10_DefaultProbeHealthyIffAlive ==
    (p_cfg.probe = "default" /\ m_tick.result # "none") =>
        /\ ~Truthy(m_tick.result) <=> m_tick.pid_alive
        /\ m_pc = "start" => ~m_tick.pid_alive

\* a window is configured and now lies before its start or after its end
OutsideWindow(cfg, now) ==
    /\ cfg.win_start # None
    /\ cfg.win_end # None
    /\ (now < cfg.win_start \/ now > cfg.win_end)

\* the step is the monitor's schedule check, on a tick outside the window
IsOutsideStep ==
    /\ m_pc = "check"
    /\ m_pc' # "check"
    /\ OutsideWindow(p_cfg, clock)

\* C35: on a non-disabled tick outside the window the probe is not
\* evaluated, start() is not called and the retry counter is unchanged;
\* stop() is called iff this supervisor holds a process handle and that
\* process is alive.
C35_OutsideWindowOnlyStops ==
    [][IsOutsideStep =>
          /\ calls'.probe = calls.probe
          /\ calls'.start = calls.start
          /\ retries' = retries
          /\ m_pc' = "sleep"
          /\ calls'.stop = calls.stop +
                 (IF m_process # 0 /\ m_process \in alive THEN 1 ELSE 0)
      ]_vars

C35_Witness ==
    /\ m_pc = "sleep"
    /\ OutsideWindow(p_cfg, clock)
    /\ ~m_tick.disabled
    /\ m_tick.result = "none"
    /\ calls.stop = 1
    /\ calls.probe = 1
    /\ calls.start = 0

\* the step is the monitor's write of last_checkup
IsCheckupWrite == m_pc = "write" /\ m_pc' # "write"

\* C36: on a non-disabled tick last_checkup is written before the schedule
\* check and the probe, and the write changes last_checkup only: every
\* other key keeps the value the document holds at the moment of the
\* write, also when the CLI wrote it after the tick's read.
C36_CheckupWriteChangesOneKey ==
    [][IsCheckupWrite =>
          /\ status' = SetKey(status, "last_checkup", clock)
          /\ calls' = calls
          /\ m_pc' = "check"
      ]_vars

\* the step is the monitor loop's own start() call (line 178)
IsMonitorStart == calls'.start = calls.start + 1

IsCliStopCall == c_pc = "idle" /\ c_cmd' = "stop" /\ c_pc' # "idle"

\* C38: the CLI stop command sets disable_restart before it terminates the
\* worker, and from its stop() call on, until a CLI start, the monitor
\* starts no worker.
C38_DisableBeforeKill ==
    [][/\ IsCliStopCall => status.disable_restart
       /\ (c_cmd = "stop" /\ c_pc # "idle") => ~IsMonitorStart
       /\ (c_cmd = "stop" /\ c_pc = "idle" /\ c_pc' = "idle") => ~IsMonitorStart
      ]_vars

\* C39: for a Program with keep_alive, max_retries >= 1 and the default
\* probe, inside its window and not disabled, a tick that finds the
\* recorded worker dead goes on to start() (the outcome of such a tick
\* depends on the recorded PID and its existence only, so what one tick
\* does every later tick does).
C39_DeadWorkerRestarted ==
    [][(/\ IsProbeStep
        /\ p_cfg.probe = "default"
        /\ p_cfg.keep_alive
        /\ p_cfg.max_retries >= 1
        /\ retries < p_cfg.max_retries
        /\ status.pid # 0
        /\ alive = {}
        /\ c_cmd = "none")
       => m_pc' = "start"]_vars

\* C40: Failed is terminal only until the Program is re-enabled: when the
\* monitor has given up before any CLI command was issued, then once a CLI
\* start command has completed the monitor loop eventually runs again.
C40_SupervisedAgainAfterStart ==
    []((m_pc = "failed" /\ c_cmd = "none") =>
          []((c_cmd = "start" /\ c_pc = "idle") => <>(m_pc # "failed")))

\* the step is a start() call up to the adapter's return: the eager start,
\* the monitor's restart or the CLI's start command
IsStartCall ==
    \/ m_pc = "boot" /\ m_pc' = "boot_w"
    \/ m_pc = "start" /\ m_pc' = "start_w"
    \/ c_pc = "idle" /\ c_pc' = "start_w"

\* the step is the end of a start() call whose adapter returned the PID pid
IsStartReturn(pid) ==
    \/ m_pc \in {"boot_w", "start_w"} /\ m_pc' # m_pc /\ m_pending = pid
    \/ c_pc = "start_w" /\ c_pc' # c_pc /\ c_pending = pid

\* the step is a stop() call: the monitor's out-of-window stop or the CLI's
IsStopCall ==
    \/ calls'.stop = calls.stop + 1
    \/ c_pc = "idle" /\ c_pc' = "flag_r"

\* the workers a stop() call is to terminate: the one recorded in the status
\* and, in the supervisor's instance, the one behind the process handle
StopTargets ==
    (IF calls'.stop # calls.stop THEN {status.pid, m_process} ELSE {status.pid})
        \ {0}

\* C11: every start() call (monitor restart, eager start, CLI start) kills
\* the process whose non-zero PID the status document records before the
\* adapter spawns: after the call that process does not exist and the new
\* worker has another PID.
C11_StartKillsRecordedPid ==
    [][(IsStartCall /\ status.pid # 0) =>
          /\ status.pid \notin alive'
          /\ alive' \subseteq (alive \ {status.pid}) \cup {spawned'}]_vars

C11_Witness ==
    /\ m_pc = "start_w"
    /\ p_cfg.probe = "default"
    /\ m_tick.pid_alive
    /\ status.pid # 0
    /\ status.pid \notin alive
    /\ m_pending # 0
    /\ alive = {m_pending}

\* C12: at any time at most one live worker launched by start() exists for
\* the Program, whatever the interleaving of the monitor's start() with a
\* CLI start() and whatever stop() recorded before.
C12_AtMostOneWorker == Cardinality(alive) <= 1

\* C13: a start() whose adapter returned a PID leaves the status document
\* with exactly the keys pid, time_started, num_retries and status
\* (running): no last_checkup, disable_restart or older pid survives.
C13_StartOverwritesStatus ==
    [][\A pid \in 1 .. MaxSpawn + 1 :
          IsStartReturn(pid) =>
             /\ status'.keys = {"pid", "time_started", "num_retries", "status"}
             /\ status'.pid = pid
             /\ status'.time_started = clock
             /\ status'.status = "running"
             /\ status'.last_checkup = None
             /\ status'.disable_restart = FALSE]_vars

C13_Witness ==
    /\ m_pc = "crashed"
    /\ c_count = 0
    /\ calls.start = 1
    /\ status.keys = {"pid", "time_started", "num_retries", "status"}
    /\ status.status = "running"
    /\ status.pid = m_process
    /\ status.num_retries = 1

\* C14: a start() whose adapter returned no PID leaves the status document
\* as it was: neither the call nor its return writes it.
C14_FailedStartKeepsStatus ==
    [][/\ IsStartCall => status' = status
       /\ IsStartReturn(0) => status' = status]_vars

C14_Witness ==
    /\ m_pc = "crashed"
    /\ c_count = 0
    /\ calls.start = 1
    /\ spawned = 0
    /\ status.keys = {"last_checkup"}

\* C15: stop() rewrites the status to pid = 0 / stopped only when the stop
\* succeeded: when the worker the call was to stop (recorded PID, process
\* handle) survives it, the status document is unmodified.
C15_StopWritesOnlyOnSuccess ==
    [][IsStopCall =>
          (StopTargets \cap alive' # {} => status' = status)
      ]_vars

\* ---------------------------------------------- Task run cycle: state machine

Max(a, b) == IF a >= b THEN a ELSE b

RunConfigs == [entries : 1 .. MaxEntries, file0 : {"absent", "corrupt"},
               deps : BOOLEAN, freq_bad : BOOLEAN]

RunInit ==
    /\ r_cfg \in RunConfigs
    /\ r_file = FileOf(r_cfg.file0, EmptyDoc)
    /\ r_sched = 0
    /\ r_timers = 0
    /\ r_fired = 0
    /\ r_w = [w \in 1 .. MaxRuns |-> NoWorker]
    /\ r_clock = 0
    /\ r_hi = EmptyDoc
    /\ r_cli = "idle"
    /\ TaskIdle
    /\ ProgIdle
    /\ ExtIdle

\* Scheduler.schedule_tasks, lines 86-88: task.schedule() for the next entry
\* of the queue; schedule() starts a new Timer (Task.py 146-148) and keeps
\* no handle to it
ScheduleTasks ==
    /\ r_sched < r_cfg.entries
    /\ r_sched' = r_sched + 1
    /\ r_timers' = r_timers + 1
    /\ UNCHANGED <<r_cfg, r_file, r_fired, r_w, r_clock, r_hi, r_cli>>
    /\ UNCHANGED taskVars
    /\ UNCHANGED progVars
    /\ UNCHANGED extVars

\* a timer fires: run_threaded starts a _worker thread, which opens the log
\* file (on failure it logs and returns) and launches the subprocess
\* (subprocess.Popen is outside any try: when it raises the thread ends)
RunThreaded ==
    /\ r_timers > 0
    /\ r_fired < MaxRuns
    /\ r_timers' = r_timers - 1
    /\ r_fired' = r_fired + 1
    /\ \E out \in {"running", "nolog", "nospawn"} :
          r_w' = [r_w EXCEPT ![r_fired + 1].pc = out]
    /\ UNCHANGED <<r_cfg, r_file, r_sched, r_clock, r_hi, r_cli>>
    /\ UNCHANGED taskVars
    /\ UNCHANGED progVars
    /\ UNCHANGED extVars

\* _worker, lines 177-183: proc.wait() returns the subprocess's exit code
WorkerExit(w) ==
    /\ r_w[w].pc = "running"
    /\ \E code \in {0, 1} :
          r_w' = [r_w EXCEPT ![w].pc = "exited", ![w].code = code]
    /\ UNCHANGED <<r_cfg, r_file, r_sched, r_timers, r_fired, r_clock, r_hi, r_cli>>
    /\ UNCHANGED taskVars
    /\ UNCHANGED progVars
    /\ UNCHANGED extVars

\* _worker, lines 186-194: read the status and set last-ran (exit code 0) or
\* last-err to now in the local map; subscripting None raises TypeError and
\* ends the thread
WorkerRead(w) ==
    /\ r_w[w].pc = "exited"
    /\ LET st == read_status(r_file)
       IN  r_w' = IF ~st.map
                  THEN [r_w EXCEPT ![w].pc = "crashed"]
                  ELSE [r_w EXCEPT
                          ![w].pc = "write",
                          ![w].last_ran = IF r_w[w].code = 0 THEN r_clock
                                                            ELSE st.last_ran,
                          ![w].last_err = IF r_w[w].code = 0 THEN st.last_err
                                                            ELSE r_clock]
    /\ UNCHANGED <<r_cfg, r_file, r_sched, r_timers, r_fired, r_clock, r_hi, r_cli>>
    /\ UNCHANGED taskVars
    /\ UNCHANGED progVars
    /\ UNCHANGED extVars

\* Job.write_status, line 70: open(status_file, "w") truncates the file
WorkerWriteOpen(w) ==
    /\ r_w[w].pc = "write"
    /\ r_file' = FileOf("corrupt", EmptyDoc)
    /\ r_w' = [r_w EXCEPT ![w].pc = "dump"]
    /\ UNCHANGED <<r_cfg, r_sched, r_timers, r_fired, r_clock, r_hi, r_cli>>
    /\ UNCHANGED taskVars
    /\ UNCHANGED progVars
    /\ UNCHANGED extVars

\* Job.write_status, line 71: json.dump writes the local map
WorkerWriteDump(w) ==
    /\ r_w[w].pc = "dump"
    /\ r_file' = FileOf("ok", r_w[w])
    /\ r_hi' = [last_ran |-> Max(r_hi.last_ran, r_w[w].last_ran),
                last_err |-> Max(r_hi.last_err, r_w[w].last_err)]
    /\ r_w' = [r_w EXCEPT ![w].pc = "rearm", ![w].wrote = TRUE]
    /\ UNCHANGED <<r_cfg, r_sched, r_timers, r_fired, r_clock, r_cli>>
    /\ UNCHANGED taskVars
    /\ UNCHANGED progVars
    /\ UNCHANGED extVars

\* the re-arm taken as soon as the subprocess has exited
WorkerScheduleNextRun_early(w) ==
    /\ r_w[w].pc \in {"exited", "rearm"}
    /\ r_timers' = r_timers + 1
    /\ r_w' = [r_w EXCEPT ![w].pc = "deps", ![w].rearms = @ + 1]
    /\ UNCHANGED <<r_cfg, r_file, r_sched, r_fired, r_clock, r_hi, r_cli>>
    /\ UNCHANGED taskVars
    /\ UNCHANGED progVars
    /\ UNCHANGED extVars

\* _worker, line 199, _schedule_next_run: a new Timer is started; with a
\* malformed freq string parse_frequency returns None and
\* timedelta(seconds=None) raises TypeError (lines 219-221), the thread ends
WorkerScheduleNextRun(w) ==
    /\ r_w[w].pc = "rearm"
    /\ IF r_cfg.freq_bad
       THEN /\ r_timers' = r_timers
            /\ r_w' = [r_w EXCEPT ![w].pc = "rearm_error"]
       ELSE /\ r_timers' = r_timers + 1
            /\ r_w' = [r_w EXCEPT ![w].pc = "deps", ![w].rearms = @ + 1]
    /\ UNCHANGED <<r_cfg, r_file, r_sched, r_fired, r_clock, r_hi, r_cli>>
    /\ UNCHANGED taskVars
    /\ UNCHANGED progVars
    /\ UNCHANGED extVars

\* _worker, line 202, _trigger_dependents: with a name in run_on_complete,
\* get_job_sched raises ValueError or returns a dict, on which
\* .start_time_str raises AttributeError; the thread ends either way
WorkerTriggerDependents(w) ==
    /\ r_w[w].pc = "deps"
    /\ r_w' = [r_w EXCEPT ![w].pc = IF ~r_cfg.deps THEN "done"
                                                  ELSE "dep_error"]
    /\ UNCHANGED <<r_cfg, r_file, r_sched, r_timers, r_fired, r_clock, r_hi, r_cli>>
    /\ UNCHANGED taskVars
    /\ UNCHANGED progVars
    /\ UNCHANGED extVars

\* cli.list_status, lines 111-114: read the Task's status and .get() its
\* keys; on None the .get raises AttributeError
CliList ==
    /\ r_cli = "idle"
    /\ r_cli' = IF read_status(r_file).map THEN "listed" ELSE "error"
    /\ UNCHANGED <<r_cfg, r_file, r_sched, r_timers, r_fired, r_w, r_clock, r_hi>>
    /\ UNCHANGED taskVars
    /\ UNCHANGED progVars
    /\ UNCHANGED extVars

\* time passes
RunTick ==
    /\ r_clock < MaxClock
    /\ r_clock' = r_clock + 1
    /\ UNCHANGED <<r_cfg, r_file, r_sched, r_timers, r_fired, r_w, r_hi, r_cli>>
    /\ UNCHANGED taskVars
    /\ UNCHANGED progVars
    /\ UNCHANGED extVars

RunNext ==
    \/ ScheduleTasks
    \/ RunThreaded
    \/ \E w \in 1 .. MaxRuns : WorkerExit(w)
    \/ \E w \in 1 .. MaxRuns : WorkerRead(w)
    \/ \E w \in 1 .. MaxRuns : WorkerWriteOpen(w)
    \/ \E w \in 1 .. MaxRuns : WorkerWriteDump(w)
    \/ \E w \in 1 .. MaxRuns : WorkerScheduleNextRun(w)
    \/ \E w \in 1 .. MaxRuns : WorkerTriggerDependents(w)
    \/ CliList
    \/ RunTick

SpecRun == RunInit /\ [][RunNext]_vars

\* ------------------------------------------ Task run cycle: checked properties

\* C16: a read of the status never fails and always yields a map (the empty
\* map for a missing or unparsable file), so the worker's bookkeeping and
\* the CLI listing always proceed.
C16_ReadAlwaysYieldsMap ==
    /\ \A w \in 1 .. MaxRuns : r_w[w].pc # "crashed"
    /\ r_cli # "error"

\* C17: a write replaces the document atomically for readers: with a file
\* that was readable to begin with, no reader ever finds it empty or
\* truncated, whatever write it overlaps.
C17_WriteAtomicForReaders ==
    r_cfg.file0 # "corrupt" =>
        /\ \A w \in 1 .. MaxRuns : r_w[w].pc # "crashed"
        /\ r_cli # "error"

\* C18: the number of pending timers of a Task never exceeds one, however
\* often the Task is scheduled.
C18_AtMostOnePendingTimer == r_timers <= 1

\* C19: the persisted last-ran and last-err never decrease: a document on
\* disk holds the latest value ever written for each, under every
\* interleaving of concurrent runs.
C19_StatusMonotonic ==
    r_file.state = "ok" =>
        /\ r_file.last_ran >= r_hi.last_ran
        /\ r_file.last_err >= r_hi.last_err

\* C20: a run whose subprocess has exited re-arms exactly once, with exit
\* code zero or not: a worker that is past the exit and has ended has
\* started exactly one timer, and none before its status write.
C20_OneRearmAfterExit ==
    \A w \in 1 .. MaxRuns :
        /\ r_w[w].pc \in {"crashed", "done", "dep_error"} => r_w[w].rearms = 1
        /\ r_w[w].pc \in {"exited", "write", "dump", "rearm"} => r_w[w].rearms = 0

\* C21: no single failure inside a run ends the Task's reschedule chain:
\* whether the log file could not be opened, the subprocess could not be
\* spawned, the status was unreadable or the frequency string malformed, a
\* worker that has ended has re-armed the Task.
C21_FailureKeepsChain ==
    \A w \in 1 .. MaxRuns :
        r_w[w].pc \in {"nolog", "nospawn", "crashed", "rearm_error",
                       "done", "dep_error"} => r_w[w].rearms = 1

\* C33: the bookkeeping of a completed run touches exactly one field: every
\* run whose subprocess has exited writes the status document; with exit
\* code 0 the write sets last_ran and leaves last_err as persisted, with any
\* other exit it sets last_err and leaves last_ran as persisted.
C33_BookkeepingOneField ==
    [][\A w \in 1 .. MaxRuns :
          /\ r_w[w].pc = "exited" => r_w'[w].pc # "crashed"
          /\ (r_w[w].pc = "dump" /\ r_w'[w].pc = "rearm") =>
                 IF r_w[w].code = 0
                 THEN /\ r_file'.last_ran = r_w[w].last_ran
                      /\ r_file'.last_err = r_hi.last_err
                 ELSE /\ r_file'.last_err = r_w[w].last_err
                      /\ r_file'.last_ran = r_hi.last_ran
      ]_vars

\* C34: within one run cycle the steps are strictly ordered: the worker
\* writes the status only after the subprocess has exited, arms the Task's
\* next timer only after it has written the status, and goes through the
\* dependents only after it has armed the timer.
C34_RunCycleOrdered ==
    [][\A w \in 1 .. MaxRuns :
          /\ (r_w'[w].wrote /\ ~r_w[w].wrote) => r_w[w].code # None
          /\ r_w'[w].rearms > r_w[w].rearms =>
                 r_w[w].wrote /\ r_w[w].code # None
          /\ (r_w[w].pc = "deps" /\ r_w'[w].pc # "deps") =>
                 r_w[w].rearms = 1 /\ r_w[w].wrote /\ r_w[w].code # None
      ]_vars

C34_Witness ==
    \E w \in 1 .. MaxRuns :
        /\ r_cfg.deps
        /\ r_w[w].pc = "dep_error"
        /\ r_w[w].code # None
        /\ r_w[w].wrote
        /\ r_w[w].rearms = 1

\* C22: a health probe that raises is handled as a needs-restart outcome of
\* that tick and never ends the monitor loop: the loop does with the tick
\* what it does with a probe result of True.
C22_ProbeExceptionIsNeedsRestart ==
    [][(IsProbeStep /\ m_tick'.result = "raised") =>
          /\ m_pc' = monitor_decide(p_cfg, retries, "True").pc
          /\ m_pc' # "crashed"]_vars

\* ------------------------------------------------ Dependents: state machine

DepKinds == {"missing", "nostart", "start"}

DepLists == UNION {[1 .. n -> DepKinds] : n \in 0 .. MaxDeps}

\* utils.get_job_sched, lines 18-30: the matching entry of the schedule
\* file, a dict and not a Task object, or ValueError when no entry matches
get_job_sched(kind) ==
    IF kind = "missing"
    THEN [raises |-> TRUE, is_task |-> FALSE]
    ELSE [raises |-> FALSE, is_task |-> FALSE]

DepInit ==
    /\ d_list \in DepLists
    /\ d_pc = "idle"
    /\ d_i = 0
    /\ d_exc = "none"
    /\ d_run = {}
    /\ d_sch = {}
    /\ d_log = 0
    /\ d_rearm = 0
    /\ TaskIdle
    /\ ProgIdle
    /\ RunIdle
    /\ OrchIdle
    /\ HashIdle
    /\ JobIdle

\* _worker, lines 199-202: the run has completed, the Task re-arms and
\* enters _trigger_dependents
DepBegin ==
    /\ d_pc = "idle"
    /\ d_rearm' = d_rearm + 1
    /\ d_pc' = "loop"
    /\ UNCHANGED <<d_list, d_i, d_exc, d_run, d_sch, d_log>>
    /\ UNCHANGED <<taskVars, progVars, runVars>>
    /\ UNCHANGED <<orchVars, hashVars, jobVars>>

\* _trigger_dependents, lines 241-253: one turn of the loop.  get_job_sched
\* raises for a name without entry; the dict it returns is truthy and has
\* no attribute start_time_str, so line 246 raises AttributeError
DepStep ==
    /\ d_pc = "loop"
    /\ d_i < Len(d_list)
    /\ LET k == d_list[d_i + 1]
           dependent == get_job_sched(k)
       IN  IF dependent.raises
           THEN /\ d_pc' = "raised"
                /\ d_exc' = "ValueError"
                /\ UNCHANGED <<d_run, d_sch>>
           ELSE IF ~dependent.is_task
                THEN /\ d_pc' = "raised"
                     /\ d_exc' = "AttributeError"
                     /\ UNCHANGED <<d_run, d_sch>>
                ELSE /\ d_pc' = "loop"
                     /\ d_exc' = d_exc
                     /\ d_run' = IF k = "nostart" THEN d_run \cup {d_i + 1}
                                                  ELSE d_run
                     /\ d_sch' = IF k = "start" THEN d_sch \cup {d_i + 1}
                                                ELSE d_sch
    /\ d_i' = d_i + 1
    /\ UNCHANGED <<d_list, d_log, d_rearm>>
    /\ UNCHANGED <<taskVars, progVars, runVars>>
    /\ UNCHANGED <<orchVars, hashVars, jobVars>>

\* _trigger_dependents: the list is exhausted, the worker thread ends
DepEnd ==
    /\ d_pc = "loop"
    /\ d_i = Len(d_list)
    /\ d_pc' = "done"
    /\ UNCHANGED <<d_list, d_i, d_exc, d_run, d_sch, d_log, d_rearm>>
    /\ UNCHANGED <<taskVars, progVars, runVars>>
    /\ UNCHANGED <<orchVars, hashVars, jobVars>>

DepNext ==
    \/ DepBegin
    \/ DepStep
    \/ DepEnd

SpecDep == DepInit /\ [][DepNext]_vars

\* --------------------------------------------- Dependents: checked properties

\* C23: when a run has completed, every Task named in run_on_complete has
\* been triggered: one without start_time was run immediately, one with a
\* start_time had its schedule() invoked.
C23_DependentsTriggered ==
    d_pc \in {"done", "raised"} =>
        \A i \in 1 .. Len(d_list) :
            /\ d_list[i] = "nostart" => i \in d_run
            /\ d_list[i] = "start" => i \in d_sch

\* C24: a name of run_on_complete that resolves to no Task is a logged
\* error only: no exception leaves the loop for it, the whole list is gone
\* through, and the completing Task has re-armed.
C24_MissingDependentOnlyLogged ==
    (d_pc \in {"done", "raised"} /\ \E i \in 1 .. Len(d_list) : d_list[i] = "missing")
        => /\ d_exc # "ValueError"
           /\ d_i = Len(d_list)
           /\ d_log >= 1
           /\ d_rearm = 1

\* ---------------------------------------------- Orchestrator: state machine

\* a program entry: whether program_class can be imported, and what the
\* eager start does ("none": not run_on_start or outside the window)
ProgramEntries ==
    {e \in [type : {"program"}, class_ok : BOOLEAN,
            eager : {"none", "ok", "raises"},
            start : {None}, start_ok : {TRUE}] :
        ~e.class_ok => e.eager = "none"}

\* a task entry: its start time of day (None: no 'start') and whether
\* get_target_datetime can parse the start string
TaskEntries ==
    {e \in [type : {"task"}, class_ok : {TRUE}, eager : {"none"},
            start : {None} \cup (0 .. (DayLen - 1)), start_ok : BOOLEAN] :
        ~e.start_ok => e.start = 0}

ScheduleDocs ==
    UNION {[1 .. n -> ProgramEntries \cup TaskEntries] : n \in 0 .. MaxJobs}

\* number of occurrences of x in the sequence q
Count(q, x) == Cardinality({k \in 1 .. Len(q) : q[k] = x})

\* every task of self.tasks is put in the queue
start_time_tasks_all(doc, tasks) == tasks

\* Scheduler.initialize, line 69: [t for t in self.tasks if t.start_time_str]
start_time_tasks(doc, tasks) ==
    SelectSeq(tasks, LAMBDA i : doc[i].start # None)

\* sorted(): x put into the sorted sequence q, after the elements whose key
\* is not larger (the sort is stable)
RECURSIVE InsertByStart(_, _, _)
InsertByStart(doc, q, x) ==
    IF q = << >>
    THEN <<x>>
    ELSE IF doc[Head(q)].start <= doc[x].start
         THEN <<Head(q)>> \o InsertByStart(doc, Tail(q), x)
         ELSE <<x>> \o q

\* Scheduler.initialize, lines 71-74: sorted(start_time_tasks, key = start)
RECURSIVE SortedByStart(_, _)
SortedByStart(doc, q) ==
    IF q = << >>
    THEN << >>
    ELSE InsertByStart(doc, SortedByStart(doc, SubSeq(q, 1, Len(q) - 1)),
                       q[Len(q)])

OrchInit ==
    /\ o_doc \in ScheduleDocs
    /\ o_pc = "init"
    /\ o_i = 0
    /\ o_programs = << >>
    /\ o_tasks = << >>
    /\ o_queue = << >>
    /\ o_mon = << >>
    /\ o_sch = << >>
    /\ o_log = 0
    /\ TaskIdle
    /\ ProgIdle
    /\ RunIdle
    /\ DepIdle
    /\ HashIdle
    /\ JobIdle

\* Scheduler.initialize, lines 41-66: one entry of the schedules array.  A
\* program whose class cannot be loaded is logged and left out
OrchLoadEntry ==
    /\ o_pc = "init"
    /\ o_i < Len(o_doc)
    /\ LET e == o_doc[o_i + 1]
       IN  /\ o_programs' = IF e.type = "program" /\ e.class_ok
                            THEN Append(o_programs, o_i + 1) ELSE o_programs
           /\ o_tasks' = IF e.type = "task"
                         THEN Append(o_tasks, o_i + 1) ELSE o_tasks
           /\ o_log' = IF e.type = "program" /\ ~e.class_ok
                       THEN o_log + 1 ELSE o_log
    /\ o_i' = o_i + 1
    /\ UNCHANGED <<o_doc, o_pc, o_queue, o_mon, o_sch>>
    /\ UNCHANGED <<taskVars, progVars, runVars>>
    /\ UNCHANGED <<depVars, hashVars, jobVars>>

\* Scheduler.initialize, lines 68-78: sort the tasks with a start time.  The
\* sort key calls get_target_datetime, which raises on a start string it
\* cannot parse; nothing catches it in initialize or run
OrchSort ==
    /\ o_pc = "init"
    /\ o_i = Len(o_doc)
    /\ LET q == start_time_tasks(o_doc, o_tasks)
       IN  IF \E k \in 1 .. Len(q) : ~o_doc[q[k]].start_ok
           THEN o_pc' = "aborted" /\ o_queue' = o_queue
           ELSE o_pc' = "eager" /\ o_queue' = SortedByStart(o_doc, q)
    /\ o_i' = 0
    /\ UNCHANGED <<o_doc, o_programs, o_tasks, o_mon, o_sch, o_log>>
    /\ UNCHANGED <<taskVars, progVars, runVars>>
    /\ UNCHANGED <<depVars, hashVars, jobVars>>

\* Scheduler.run, lines 96-105: the eager start of one program; an exception
\* of start() is caught and logged
OrchEagerStart ==
    /\ o_pc = "eager"
    /\ o_i < Len(o_programs)
    /\ o_log' = IF o_doc[o_programs[o_i + 1]].eager = "raises"
                THEN o_log + 1 ELSE o_log
    /\ o_i' = o_i + 1
    /\ UNCHANGED <<o_doc, o_pc, o_programs, o_tasks, o_queue, o_mon, o_sch>>
    /\ UNCHANGED <<taskVars, progVars, runVars>>
    /\ UNCHANGED <<depVars, hashVars, jobVars>>

\* Scheduler.run, lines 109-110: the monitor thread of one program
OrchSpawnMonitor ==
    /\ o_pc = "monitors"
    /\ o_i < Len(o_programs)
    /\ o_mon' = Append(o_mon, o_programs[o_i + 1])
    /\ o_i' = o_i + 1
    /\ UNCHANGED <<o_doc, o_pc, o_programs, o_tasks, o_queue, o_sch, o_log>>
    /\ UNCHANGED <<taskVars, progVars, runVars>>
    /\ UNCHANGED <<depVars, hashVars, jobVars>>

\* Scheduler.schedule_tasks, lines 86-88: task.schedule() for one task
OrchScheduleTask ==
    /\ o_pc = "tasks"
    /\ o_i < Len(o_queue)
    /\ o_sch' = Append(o_sch, o_queue[o_i + 1])
    /\ o_i' = o_i + 1
    /\ UNCHANGED <<o_doc, o_pc, o_programs, o_tasks, o_queue, o_mon, o_log>>
    /\ UNCHANGED <<taskVars, progVars, runVars>>
    /\ UNCHANGED <<depVars, hashVars, jobVars>>

\* Scheduler.run: a loop is exhausted, the next one begins; after
\* schedule_tasks the main thread sleeps for good (lines 113-115)
OrchAdvance ==
    /\ \/ o_pc = "eager" /\ o_i = Len(o_programs) /\ o_pc' = "monitors"
       \/ o_pc = "monitors" /\ o_i = Len(o_programs) /\ o_pc' = "tasks"
       \/ o_pc = "tasks" /\ o_i = Len(o_queue) /\ o_pc' = "running"
    /\ o_i' = 0
    /\ UNCHANGED <<o_doc, o_programs, o_tasks, o_queue, o_mon, o_sch, o_log>>
    /\ UNCHANGED <<taskVars, progVars, runVars>>
    /\ UNCHANGED <<depVars, hashVars, jobVars>>

OrchNext ==
    \/ OrchLoadEntry
    \/ OrchSort
    \/ OrchEagerStart
    \/ OrchSpawnMonitor
    \/ OrchScheduleTask
    \/ OrchAdvance

SpecOrch == OrchInit /\ [][OrchNext]_vars

\* ------------------------------------------- Orchestrator: checked properties

\* C25: one bad entry never prevents the rest from starting: once startup
\* has ended, every program whose class could be loaded has its monitor and
\* every well-formed task with a start time has had its schedule() call.
C25_BadEntryOnlySkipped ==
    o_pc \in {"running", "aborted"} =>
        \A i \in 1 .. Len(o_doc) :
            /\ (o_doc[i].type = "program" /\ o_doc[i].class_ok)
                  => Count(o_mon, i) = 1
            /\ (o_doc[i].type = "task" /\ o_doc[i].start # None
                    /\ o_doc[i].start_ok)
                  => Count(o_sch, i) = 1

\* C26: after startup every loaded Program has exactly one monitor loop,
\* whatever its eager start did, every Task with a start time has had
\* exactly one schedule() call, and a Task without start time has none.
C26_OneMonitorOneSchedule ==
    o_pc = "running" =>
        \A i \in 1 .. Len(o_doc) :
            /\ Count(o_mon, i) =
                  (IF o_doc[i].type = "program" /\ o_doc[i].class_ok
                   THEN 1 ELSE 0)
            /\ Count(o_sch, i) =
                  (IF o_doc[i].type = "task" /\ o_doc[i].start # None
                   THEN 1 ELSE 0)

C26_Witness ==
    /\ o_pc = "running"
    /\ Len(o_doc) = MaxJobs
    /\ \E i \in 1 .. Len(o_doc) : o_doc[i].eager = "raises"
    /\ \E i \in 1 .. Len(o_doc) :
          o_doc[i].type = "task" /\ o_doc[i].start = None
    /\ \E i \in 1 .. Len(o_doc) :
          o_doc[i].type = "task" /\ o_doc[i].start # None
    /\ Len(o_mon) = 1
    /\ Len(o_sch) = 1

\* --------------------------------------------- Schedule hash: state machine

\* the documents the schedule file may hold: unparsable, or a schedules
\* array of value v written in layout fmt
ScheduleFiles ==
    {f \in [ok : BOOLEAN, v : 0 .. MaxVer, fmt : 0 .. 1] :
        ~f.ok => (f.v = 0 /\ f.fmt = 0)}

\* load_schedules, lines 48-52: SHA-256 of json.dumps(schedules,
\* sort_keys=True, separators): a function of the array's value alone,
\* taken as free of collisions
Digest(f) == 2 * f.v + 1

\* load_schedules, lines 59-68: valid_hash against the hash file's content
valid_hash(f, old_digest) ==
    IF old_digest # None THEN old_digest = Digest(f) ELSE FALSE

HashInit ==
    /\ h_file \in ScheduleFiles
    /\ h_hash = None
    /\ h_last = None
    /\ h_writes = 0
    /\ h_loads = 0
    /\ h_edits = 0
    /\ h_cli = 0
    /\ h_valid = "none"
    /\ TaskIdle
    /\ ProgIdle
    /\ RunIdle
    /\ DepIdle
    /\ OrchIdle
    /\ JobIdle

\* Scheduler.initialize, line 39: load_schedules(write_hash=True).  A file
\* that cannot be read or parsed returns ([], False) at line 44, before the
\* hash is computed or written
OrchestratorLoad ==
    /\ h_loads < MaxLoads
    /\ h_loads' = h_loads + 1
    /\ IF h_file.ok
       THEN /\ h_hash' = Digest(h_file)
            /\ h_last' = Digest(h_file)
            /\ h_writes' = h_writes + 1
       ELSE /\ h_hash' = h_hash
            /\ h_last' = None
            /\ h_writes' = h_writes
    /\ UNCHANGED <<h_file, h_edits, h_cli, h_valid>>
    /\ UNCHANGED <<taskVars, progVars, runVars>>
    /\ UNCHANGED <<depVars, orchVars, jobVars>>

\* the schedule document is edited on disk
EditSchedule ==
    /\ h_edits < MaxEdits
    /\ h_edits' = h_edits + 1
    /\ \E f \in ScheduleFiles : f # h_file /\ h_file' = f
    /\ UNCHANGED <<h_hash, h_last, h_writes, h_loads, h_cli, h_valid>>
    /\ UNCHANGED <<taskVars, progVars, runVars>>
    /\ UNCHANGED <<depVars, orchVars, jobVars>>

\* cli.list_status, lines 19-24: load_schedules without write_hash, the
\* validity is printed
CliListSchedule ==
    /\ h_cli < MaxCli
    /\ h_cli' = h_cli + 1
    /\ h_valid' = IF h_file.ok /\ valid_hash(h_file, h_hash) THEN "True"
                                                               ELSE "False"
    /\ UNCHANGED <<h_file, h_hash, h_last, h_writes, h_loads, h_edits>>
    /\ UNCHANGED <<taskVars, progVars, runVars>>
    /\ UNCHANGED <<depVars, orchVars, jobVars>>

\* cli.stop_program / start_program, lines 133 and 171: load_schedules
\* without write_hash
CliStopStartLoad ==
    /\ h_cli < MaxCli
    /\ h_cli' = h_cli + 1
    /\ UNCHANGED <<h_file, h_hash, h_last, h_writes, h_loads, h_edits, h_valid>>
    /\ UNCHANGED <<taskVars, progVars, runVars>>
    /\ UNCHANGED <<depVars, orchVars, jobVars>>

HashNext ==
    \/ OrchestratorLoad
    \/ EditSchedule
    \/ CliListSchedule
    \/ CliStopStartLoad

SpecHash == HashInit /\ [][HashNext]_vars

\* ------------------------------------------ Schedule hash: checked properties

\* C27: every Orchestrator load rewrites the hash file and no CLI command
\* does; `list` reports the schedule valid exactly when the array now on
\* disk hashes to the value written at the last Orchestrator load.
C27_HashWrittenOnEveryLoad ==
    [][/\ h_loads' # h_loads => h_writes' = h_writes + 1
       /\ h_cli' # h_cli => (h_writes' = h_writes /\ h_hash' = h_hash)
       /\ h_valid' # h_valid =>
             (h_valid' = "True" <=>
                 (h_file.ok /\ h_last # None /\ Digest(h_file) = h_last))
      ]_vars

\* ----------------------------------------------- Job helpers: state machine

\* frequency strings: a number part that int() accepts or not, a space
\* between number and unit or none, and the unit part ("" for none)
FreqUnits == {"s", "m", "h", "x", ""}

FreqCalls ==
    {c \in [op : {"job_freq", "task_freq"}, num_ok : BOOLEAN,
            value : 0 .. MaxVal, space : BOOLEAN, unit : FreqUnits,
            start_str : {None}, end_str : {None}, now : {0}] :
        ~c.num_ok => c.value = 0}

\* window strings of a program entry: absent (None), one parse_time_str
\* cannot parse (BadStr), or a time of day
WindowCalls ==
    [op : {"within"}, num_ok : {TRUE}, value : {0}, space : {TRUE},
     unit : {"s"}, start_str : {None, BadStr} \cup (0 .. MaxWin),
     end_str : {None, BadStr} \cup (0 .. MaxWin), now : 0 .. MaxClock]

\* seconds per unit letter
UnitSeconds(u) ==
    IF u = "m" THEN SecondsPerMinute
    ELSE IF u = "h" THEN SecondsPerHour
    ELSE 1

\* Job.parse_frequency, lines 35-47: split() must give two parts, int() must
\* accept the first; an unknown unit falls through to the default unlogged
job_parse_frequency(c) ==
    IF ~c.space \/ c.unit = "" \/ ~c.num_ok
    THEN [secs |-> DefaultInterval, logged |-> TRUE]
    ELSE IF c.unit \in {"m", "s", "h"}
         THEN [secs |-> c.value * UnitSeconds(c.unit), logged |-> FALSE]
         ELSE [secs |-> DefaultInterval, logged |-> FALSE]

\* Task.parse_frequency, lines 63-76: by the last character; int() takes
\* the rest, trailing space included; any other ending returns None unlogged
task_parse_frequency(c) ==
    IF c.unit \in {"m", "s", "h"}
    THEN IF c.num_ok
         THEN [secs |-> c.value * UnitSeconds(c.unit), logged |-> FALSE]
         ELSE [secs |-> None, logged |-> TRUE]
    ELSE [secs |-> None, logged |-> FALSE]

\* Job.parse_time_str, lines 49-57, under BaseProgram.__init__ lines 38-39:
\* None for an absent string and for one neither format matches
parse_time_str(x) == IF x = None \/ x = BadStr THEN None ELSE x

JobInit ==
    /\ j_in \in FreqCalls \cup WindowCalls
    /\ j_pc = "call"
    /\ j_secs = None
    /\ j_logged = FALSE
    /\ j_within = FALSE
    /\ TaskIdle
    /\ ProgIdle
    /\ RunIdle
    /\ DepIdle
    /\ OrchIdle
    /\ HashIdle

\* BaseProgram.__init__, line 30: self.parse_frequency(check_alive_freq)
JobParseFrequency ==
    /\ j_pc = "call"
    /\ j_in.op = "job_freq"
    /\ j_secs' = job_parse_frequency(j_in).secs
    /\ j_logged' = job_parse_frequency(j_in).logged
    /\ j_pc' = "done"
    /\ UNCHANGED <<j_in, j_within>>
    /\ UNCHANGED <<taskVars, progVars, runVars>>
    /\ UNCHANGED <<depVars, orchVars, hashVars>>

\* Task.schedule, line 124: self.parse_frequency(self.freq_str)
TaskParseFrequency ==
    /\ j_pc = "call"
    /\ j_in.op = "task_freq"
    /\ j_secs' = task_parse_frequency(j_in).secs
    /\ j_logged' = task_parse_frequency(j_in).logged
    /\ j_pc' = "done"
    /\ UNCHANGED <<j_in, j_within>>
    /\ UNCHANGED <<taskVars, progVars, runVars>>
    /\ UNCHANGED <<depVars, orchVars, hashVars>>

\* BaseProgram.__init__ lines 35-39, then Job.within_schedule at time now
JobWithinSchedule ==
    /\ j_pc = "call"
    /\ j_in.op = "within"
    /\ j_within' = within_schedule([win_start |-> parse_time_str(j_in.start_str),
                                    win_end |-> parse_time_str(j_in.end_str)],
                                   j_in.now)
    /\ j_pc' = "done"
    /\ UNCHANGED <<j_in, j_secs, j_logged>>
    /\ UNCHANGED <<taskVars, progVars, runVars>>
    /\ UNCHANGED <<depVars, orchVars, hashVars>>

JobNext ==
    \/ JobParseFrequency
    \/ TaskParseFrequency
    \/ JobWithinSchedule

SpecJob == JobInit /\ [][JobNext]_vars

\* -------------------------------------------- Job helpers: checked properties

\* the bound was given as a string that parses to a time of day
IsTime(x) == x # None /\ x # BadStr

C29_FrequencyParsedOrDefault ==
    (j_pc = "done" /\ j_in.op \in {"job_freq", "task_freq"}) =>
        IF j_in.num_ok /\ j_in.space /\ j_in.unit \in {"s", "m", "h"}
        THEN /\ j_secs = j_in.value * (IF j_in.unit = "s" THEN 1
                                       ELSE IF j_in.unit = "m"
                                            THEN SecondsPerMinute
                                            ELSE SecondsPerHour)
             /\ ~j_logged
        ELSE /\ j_logged
             /\ j_secs = DefaultInterval

====
